---- MODULE Spec2Model ----
(***************************************************************************)
(* Model of extra_checks: the check Registry, the process-global ignore    *)
(* table _IGNORED, and the ChecksController (construction from the         *)
(* registry, the EXTRA_CHECKS setting and the ignore table; the three run  *)
(* callables check_extra_checks_health, check_models and                   *)
(* check_drf_serializers).                                                 *)
(***************************************************************************)
EXTENDS Integers, Sequences, FiniteSets, TLC

\* ------------------------------------------------------------------------
\* Bounds of the model
\* ------------------------------------------------------------------------
MaxRegister == 2      \* register(...)(cls) calls in one behaviour
MaxIgnore == 2        \* ignore_checks(...)(obj) calls in one behaviour
MaxSerializers == 3   \* serializer classes defined besides the two DRF roots
MaxBases == 2         \* direct bases of one defined serializer class

\* ------------------------------------------------------------------------
\* Small helpers
\* ------------------------------------------------------------------------
Range(s) == {s[i] : i \in 1..Len(s)}

IsPrefix(p, s) == Len(p) <= Len(s) /\ SubSeq(s, 1, Len(p)) = p

RECURSIVE Flatten(_)
Flatten(ss) == IF ss = <<>> THEN <<>> ELSE Head(ss) \o Flatten(Tail(ss))

Count(s, x) == Cardinality({i \in 1..Len(s) : s[i] = x})

NoDuplicates(s) == \A i, j \in 1..Len(s) : s[i] = s[j] => i = j

\* A Python dict as a function; the empty dict is the function on {}.
EmptyDict == [k \in {} |-> {}]

\* An Optional value: None, or Some(v).
None == [isNone |-> TRUE, val |-> EmptyDict]
Some(v) == [isNone |-> FALSE, val |-> v]

\* ------------------------------------------------------------------------
\* Check identifiers, tags and check classes
\* ------------------------------------------------------------------------
X001 == "X001"
X002 == "X002"
X003 == "X003"
X004 == "X004"
X301 == "X301"
UnknownId == "X999"

\* Order in which dict-like iterations over identifiers are listed.
IdOrder == <<X001, X002, X003, X004, X301, UnknownId>>

TagSelfcheck == "extra_checks_selfcheck"
TagModels == "models"
TagDRF == "extra_checks_drf_serializer"

\* The check classes of the model.  CheckConfig is the self-check, the
\* others stand for a whole-model check, two per-field checks and the
\* serializer check of drf_serializer_checks.py.
CheckClasses ==
    {"CheckConfig", "CheckModel", "CheckFieldA", "CheckFieldB",
     "CheckDRFSerializerExtraKwargs"}

\* check_class.Id
Id(cls) ==
    CASE cls = "CheckConfig" -> X001
      [] cls = "CheckModel" -> X002
      [] cls = "CheckFieldA" -> X003
      [] cls = "CheckFieldB" -> X004
      [] cls = "CheckDRFSerializerExtraKwargs" -> X301

\* The base capability of a check class.
Kind(cls) ==
    CASE cls = "CheckConfig" -> "self"
      [] cls = "CheckModel" -> "model"
      [] cls = "CheckFieldA" -> "field"
      [] cls = "CheckFieldB" -> "field"
      [] cls = "CheckDRFSerializerExtraKwargs" -> "drfmodel"

\* isinstance(check, CheckModelField)
IsCheckModelField(cls) == Kind(cls) = "field"

\* The tag tuples a class is registered with in the model: its own group,
\* another group, two groups, and the same group twice.
TagChoices(cls) ==
    CASE cls = "CheckConfig" -> {<<TagSelfcheck>>, <<TagModels>>}
      [] cls = "CheckModel" -> {<<TagModels>>, <<TagModels, TagDRF>>}
      [] cls = "CheckFieldA" -> {<<TagModels>>, <<TagModels, TagModels>>}
      [] cls = "CheckFieldB" -> {<<TagModels>>}
      [] cls = "CheckDRFSerializerExtraKwargs" -> {<<TagDRF>>, <<TagDRF, TagSelfcheck>>}

\* ------------------------------------------------------------------------
\* State
\* ------------------------------------------------------------------------
VARIABLES
    checks,        \* Registry.checks: insertion-ordered dict class -> tags
    IGNORED,       \* _IGNORED: dict object -> set of identifiers
    settings,      \* settings.EXTRA_CHECKS (or its absence)
    serializers,   \* TRUE iff rest_framework could be imported
    bases,         \* the direct bases of every defined serializer class
    controller,    \* the ChecksController built by finish(), or None
    created,       \* history: the registry and the ignore table as
                   \* ChecksController.create found them
    djangoChecks,  \* django.core.checks registry: <<callback, tag>> in order
    out,           \* result of the last run callable
    nRegister,     \* register calls so far
    nIgnore,       \* ignore_checks calls so far
    hist           \* history: the arguments of the calls made so far
                   \*   registered: class -> the tags of each of its
                   \*               registrations, in call order
                   \*   annotated:  object -> the identifiers of each
                   \*               ignore_checks application made to it, in
                   \*               call order
                   \*   lastIgnore: the last ignore_checks call and its result
                   \*   previous:   `out` as the last check_models call found it

vars == <<checks, IGNORED, settings, serializers, bases, controller, created,
          djangoChecks, out, nRegister, nIgnore, hist>>

\* ------------------------------------------------------------------------
\* Registry
\* ------------------------------------------------------------------------
RegisteredClasses(cs) == {cs[i].cls : i \in 1..Len(cs)}

\* self.checks[check_class]
TagsOf(cs, cls) == cs[CHOOSE i \in 1..Len(cs) : cs[i].cls = cls].tags

\* Mutant: a repeated registration adds its tags to the ones already held.
DictSetMerge(cs, cls, tags) ==
    IF cls \in RegisteredClasses(cs)
    THEN [i \in 1..Len(cs) |->
             IF cs[i].cls = cls
             THEN [cls |-> cls, tags |-> cs[i].tags \o tags] ELSE cs[i]]
    ELSE Append(cs, [cls |-> cls, tags |-> tags])

\* self.checks[check_class] = tags on an insertion-ordered dict: a new key is
\* appended, an existing key keeps its position and gets the new value.
DictSet(cs, cls, tags) ==
    IF cls \in RegisteredClasses(cs)
    THEN [i \in 1..Len(cs) |->
             IF cs[i].cls = cls THEN [cls |-> cls, tags |-> tags] ELSE cs[i]]
    ELSE Append(cs, [cls |-> cls, tags |-> tags])

\* Mutant: a registration made after finish() rebuilds the controller.
RegisterLive(cls, tags) ==
    /\ nRegister < MaxRegister
    /\ checks' = DictSet(checks, cls, tags)
    /\ nRegister' = nRegister + 1
    /\ hist' = [hist EXCEPT !.registered =
                   [c \in DOMAIN @ \cup {cls} |->
                       (IF c \in DOMAIN @ THEN @[c] ELSE <<>>)
                       \o (IF c = cls THEN <<tags>> ELSE <<>>)]]
    /\ controller' =
           IF controller.isNone THEN controller
           ELSE [controller EXCEPT !.val.instances =
                    Append(@, [cls |-> cls, tags |-> tags, options |-> {},
                               ignored_objects |-> {}]),
                                   !.val.registered_checks =
                    [t \in DOMAIN @ \cup Range(tags) |->
                        (IF t \in DOMAIN @ THEN @[t] ELSE <<>>)
                        \o (IF t \in Range(tags)
                            THEN <<Len(controller.val.instances) + 1>> ELSE <<>>)]]
    /\ UNCHANGED <<IGNORED, settings, serializers, bases, created,
                   djangoChecks, out, nIgnore>>

\* register(*tags)(check_class)
Register(cls, tags) ==
    /\ nRegister < MaxRegister
    /\ checks' = DictSet(checks, cls, tags)
    /\ nRegister' = nRegister + 1
    /\ hist' = [hist EXCEPT !.registered =
                   [c \in DOMAIN @ \cup {cls} |->
                       (IF c \in DOMAIN @ THEN @[c] ELSE <<>>)
                       \o (IF c = cls THEN <<tags>> ELSE <<>>)]]
    /\ UNCHANGED <<IGNORED, settings, serializers, bases, controller, created,
                   djangoChecks, out, nIgnore>>

\* ------------------------------------------------------------------------
\* The ignore annotation
\* ------------------------------------------------------------------------
\* Mutant: a repeated annotation adds its identifiers to the ones recorded.
IgnoredSetUnion(table, entity, ids) ==
    [o \in DOMAIN table \cup {entity} |->
        IF o = entity
        THEN (IF o \in DOMAIN table THEN table[o] ELSE {}) \cup ids
        ELSE table[o]]

\* Mutant: the annotation rebinds the table to one holding the entity alone.
IgnoredSetAlone(table, entity, ids) == [o \in {entity} |-> ids]

\* _IGNORED[entity] = set(args)
IgnoredSet(table, entity, ids) ==
    [o \in DOMAIN table \cup {entity} |-> IF o = entity THEN ids ELSE table[o]]

\* ------------------------------------------------------------------------
\* Configuration: settings.EXTRA_CHECKS and ConfigForm
\* ------------------------------------------------------------------------
NoOptions == {}
SomeOptions == {<<"limit", "1">>}
Malformed == {<<"limit", "oops">>}

\* A dict identifier -> options from explicit pairs.
Config1(a, x) == [k \in {a} |-> x]
Config2(a, x, b, y) == [k \in {a, b} |-> IF k = a THEN x ELSE y]

\* The identifiers of the CheckId enumeration.
KnownIds == {X001, X002, X003, X004, X301}

\* The values of settings.EXTRA_CHECKS the model starts from.
RawConfigs ==
    { EmptyDict,
      Config2(X002, NoOptions, X003, SomeOptions),
      [k \in KnownIds |-> NoOptions],
      Config2(X002, Malformed, X003, NoOptions),
      Config2(UnknownId, NoOptions, X003, Malformed) }

\* form.errors: the offending keys, an unknown identifier or a malformed
\* options value each giving one error.
FormErrors(raw) ==
    SelectSeq(IdOrder, LAMBDA k :
        k \in DOMAIN raw /\ (k \notin KnownIds \/ raw[k] = Malformed))

\* form.is_valid(check_form)
IsValid(raw) == FormErrors(raw) = <<>>

\* ------------------------------------------------------------------------
\* ChecksController.__init__ and ChecksController.create
\* ------------------------------------------------------------------------
DefaultConfig == Config1(X001, NoOptions)

\* Mutant: the default configuration is not substituted.
EffectiveConfigNoDefault(config) == config.val

\* config = config or {CheckId.X001: {}}
EffectiveConfig(config) ==
    IF config.isNone \/ DOMAIN config.val = {} THEN DefaultConfig ELSE config.val

\* Mutant: one ignore set for all identifiers.
BuildIgnoredGlobal(table) == [id \in KnownIds |-> DOMAIN table]

\* self.ignored: the ignore table turned around, identifier -> set of objects
BuildIgnored(table) ==
    [id \in UNION {table[o] : o \in DOMAIN table} |->
        {o \in DOMAIN table : id \in table[o]}]

\* self.ignored.get(check_class.Id, set())
IgnoredFor(ignored, id) == IF id \in DOMAIN ignored THEN ignored[id] ELSE {}

\* if check_class.Id in config
IsActive(cls, config) == Id(cls) \in DOMAIN config

\* The check instances, one per registered class whose identifier is configured,
\* in the iteration order of the registry.
Instances(cs, config, ignored) ==
    LET act == SelectSeq(cs, LAMBDA e : IsActive(e.cls, config))
    IN [i \in 1..Len(act) |->
           [cls |-> act[i].cls,
            tags |-> act[i].tags,
            options |-> config[Id(act[i].cls)],
            ignored_objects |-> IgnoredFor(ignored, Id(act[i].cls))]]

\* Mutant: an instance is indexed under the first of its tags only.
IndexByFirstTag(insts) ==
    [t \in {insts[i].tags[1] : i \in 1..Len(insts)} |->
        SelectSeq([i \in 1..Len(insts) |-> i], LAMBDA i : insts[i].tags[1] = t)]

\* for tag in tags: self.registered_checks.setdefault(tag, []).append(check)
\* The list of a tag holds the index of an instance once per occurrence of the
\* tag in the tags the class was registered with.
IndexByTag(insts) ==
    [t \in UNION {Range(insts[i].tags) : i \in 1..Len(insts)} |->
        Flatten([i \in 1..Len(insts) |->
                    [j \in 1..Count(insts[i].tags, t) |-> i]])]

NewController(cs, config, errors) ==
    LET cfg == EffectiveConfig(config)
        ign == BuildIgnored(IGNORED)
        insts == Instances(cs, cfg, ign)
    IN [errors |-> errors,
        instances |-> insts,
        registered_checks |-> IndexByTag(insts),
        ignored |-> ign]

\* Mutant: the errors of a failed validation are dropped.
CreateDroppingErrors(cs) ==
    NewController(cs, IF settings.isNone \/ ~IsValid(settings.val)
                      THEN None ELSE Some(settings.val), None)

Create(cs) ==
    IF settings.isNone
    THEN NewController(cs, None, None)
    ELSE IF IsValid(settings.val)
         THEN NewController(cs, Some(settings.val), None)
         ELSE NewController(cs, None, Some(FormErrors(settings.val)))

\* is_healthy: not self.errors
IsHealthy(c) == c.errors.isNone \/ c.errors.val = <<>>

\* self.registered_checks.get(tag, [])
ChecksFor(c, tag) ==
    IF tag \in DOMAIN c.registered_checks THEN c.registered_checks[tag] ELSE <<>>

\* ------------------------------------------------------------------------
\* Registry.finish
\* ------------------------------------------------------------------------
\* The django.core.checks.register calls of finish(), in order.
HostRegistrations(drf) ==
    <<[callback |-> "check_extra_checks_health", tag |-> TagSelfcheck],
      [callback |-> "check_drf_serializers", tag |-> TagModels]>>
    \o (IF drf
        THEN <<[callback |-> "check_extra_checks_health", tag |-> TagDRF]>>
        ELSE <<>>)

Finish ==
    /\ controller.isNone
    /\ controller' = Some(Create(checks))
    /\ created' = [checks |-> checks, IGNORED |-> IGNORED,
                   registered |-> hist.registered]
    /\ djangoChecks' = djangoChecks \o HostRegistrations(serializers)
    /\ UNCHANGED <<checks, IGNORED, settings, serializers, bases, out,
                   nRegister, nIgnore, hist>>

\* ------------------------------------------------------------------------
\* The host: applications, models, fields, serializer classes, site prefixes
\* ------------------------------------------------------------------------
\* site.PREFIXES; a path is a sequence of characters.
SitePrefixes == {<<"/", "p">>}

\* any(path.startswith(prefix) for prefix in site_prefixes)
StartsWithSitePrefix(path) == \E prefix \in SitePrefixes : IsPrefix(prefix, path)

\* Objects are pairs <<name, number>>.
M1 == <<"M", 1>>
M2 == <<"M", 2>>
M3 == <<"M", 3>>
M4 == <<"M", 4>>
F11 == <<"M1.f", 1>>
F12 == <<"M1.f", 2>>
F21 == <<"M2.f", 1>>
F31 == <<"M3.f", 1>>
F41 == <<"M4.f", 1>>
TheController == <<"controller", 0>>

\* django.apps.apps.get_app_configs(): a first-party application, one
\* installed under the site prefix, and a first-party one whose directory
\* name merely begins like the site prefix.
AppProject == [path |-> <<"/", "a">>, models |-> <<M1, M2>>]
AppVendored == [path |-> <<"/", "p", "/", "v">>, models |-> <<M3>>]
AppSibling == [path |-> <<"/", "p", "2">>, models |-> <<M4>>]
AllApps == <<AppProject, AppVendored, AppSibling>>

\* The app_configs arguments the run callables are called with.
AppConfigChoices ==
    {None, Some(<<AppProject>>), Some(<<AppVendored, AppProject>>)}

\* ModelAST(model).field_nodes: the fields of a model in declaration order.
FieldNodes(model) ==
    CASE model = M1 -> <<F11, F12>>
      [] model = M2 -> <<F21>>
      [] model = M3 -> <<F31>>
      [] model = M4 -> <<F41>>

\* The objects an ignore annotation is applied to, and the identifier sets.
IgnoreTargets == {M1, F11}
IgnoreIdSets == {{X002}, {X003}, {X002, X003}}

\* Serializer classes: the two roots of rest_framework, one subclass the
\* library itself ships, and the classes defined while the program runs.
Serializer == <<"Serializer", 0>>
ModelSerializer == <<"ModelSerializer", 0>>
HyperlinkedModelSerializer == <<"HyperlinkedModelSerializer", 0>>
S(i) == <<"S", i>>

LibrarySerializers == {Serializer, ModelSerializer, HyperlinkedModelSerializer}
DefinedSerializers(bs) == {S(i) : i \in 1..Len(bs)}

\* The direct bases of a class; bs[i] are those of S(i).
BasesOf(bs, c) ==
    CASE c = Serializer -> {}
      [] c = ModelSerializer -> {Serializer}
      [] c = HyperlinkedModelSerializer -> {ModelSerializer}
      [] OTHER -> bs[c[2]]

\* cls.__subclasses__(): the direct subclasses in the order of their definition.
Subclasses(bs, c) ==
    (IF c = Serializer THEN <<ModelSerializer>>
     ELSE IF c = ModelSerializer THEN <<HyperlinkedModelSerializer>>
     ELSE <<>>)
    \o SelectSeq([i \in 1..Len(bs) |-> S(i)], LAMBDA d : c \in bs[d[2]])

\* importlib.import_module(s.__module__).__file__: the library lives under
\* the site prefix; S(1) is defined by an installed package, S(4) by a
\* project whose directory name begins like the site prefix.
ModuleFile(c) ==
    IF c \in LibrarySerializers THEN <<"/", "p", "/", "r">>
    ELSE IF c[2] = 1 THEN <<"/", "p", "/", "l">>
    ELSE IF c[2] = 4 THEN <<"/", "p", "2", "/", "s">>
    ELSE <<"/", "a", "/", "s">>

\* The bases of a class as its class statement lists them: the most recently
\* defined base first.
BaseList(bs, c) ==
    LET all == [i \in 1..Len(bs) |-> S(Len(bs) + 1 - i)]
               \o <<HyperlinkedModelSerializer, ModelSerializer, Serializer>>
    IN SelectSeq(all, LAMBDA b : b \in BasesOf(bs, c))

\* The C3 merge of Python's method resolution order.
RECURSIVE Merge(_)
Merge(seqs) ==
    LET live == SelectSeq(seqs, LAMBDA q : q # <<>>)
        good(q) == \A k \in 1..Len(live) : Head(q) \notin Range(Tail(live[k]))
        cands == SelectSeq(live, good)
    IN IF live = <<>> \/ cands = <<>> THEN <<>>
       ELSE LET h == Head(Head(cands))
            IN <<h>> \o Merge([k \in 1..Len(live) |->
                                  SelectSeq(live[k], LAMBDA x : x # h)])

\* cls.__mro__ (without object)
RECURSIVE MRO(_, _)
MRO(bs, c) ==
    LET bl == BaseList(bs, c)
    IN <<c>> \o Merge([k \in 1..Len(bl) |-> MRO(bs, bl[k])] \o <<bl>>)

\* What the body of a serializer class declares itself: an inner Meta
\* ("none", "plain" without extra_kwargs, "kwargs" with it), the keys of
\* Meta.extra_kwargs, and the fields declared on the class.
OwnMeta(c) ==
    IF c \in LibrarySerializers THEN "none"
    ELSE CASE c[2] = 1 -> "plain"
           [] c[2] = 2 -> "none"
           [] c[2] = 3 -> "kwargs"
           [] OTHER -> "plain"

OwnExtraKwargs(c) ==
    IF c \in LibrarySerializers THEN {}
    ELSE CASE c[2] = 3 -> {"a", "c"}
           [] OTHER -> {}

OwnDeclaredFields(c) ==
    IF c \in LibrarySerializers THEN {}
    ELSE CASE c[2] = 1 -> {"a"}
           [] c[2] = 2 -> {"b"}
           [] c[2] = 3 -> {}
           [] OTHER -> {"c"}

\* serializer.Meta: the Meta of the first class of the MRO that has one.
MetaOwner(bs, c) ==
    LET having == SelectSeq(MRO(bs, c), LAMBDA k : OwnMeta(k) # "none")
    IN IF having = <<>> THEN None ELSE Some(Head(having))

\* serializer._declared_fields: the fields declared on the class or on a base.
DeclaredFields(bs, c) == UNION {OwnDeclaredFields(k) : k \in Range(MRO(bs, c))}

\* Mutant: every key of extra_kwargs is reported, declared field or not.
ExtraKwargsAllKeys(bs, c) ==
    LET meta == MetaOwner(bs, c)
    IN IF meta.isNone THEN {}
       ELSE IF OwnMeta(meta.val) # "kwargs" THEN {}
       ELSE OwnExtraKwargs(meta.val)

\* CheckDRFSerializerExtraKwargs.apply: the fields the hint names, or nothing.
ExtraKwargsInvalid(bs, c) ==
    LET meta == MetaOwner(bs, c)
    IN IF meta.isNone THEN {}
       ELSE IF OwnMeta(meta.val) # "kwargs" THEN {}
       ELSE OwnExtraKwargs(meta.val) \cap DeclaredFields(bs, c)

\* ------------------------------------------------------------------------
\* Checks applied to objects
\* ------------------------------------------------------------------------
\* The objects a check class finds nothing wrong with.
Clean(cls) ==
    CASE cls = "CheckModel" -> {M2}
      [] cls = "CheckFieldA" -> {}
      [] cls = "CheckFieldB" -> {F12}
      [] OTHER -> {}

ObjectKind(obj) ==
    IF obj = TheController THEN "self"
    ELSE IF obj[1] = "M" THEN "model"
    ELSE IF obj \in {F11, F12, F21, F31, F41} THEN "field"
    ELSE "serializer"

Diagnostic(idx, cls, obj, hint) ==
    [check |-> idx, id |-> Id(cls), obj |-> obj, hint |-> hint]

\* check.apply(obj): the diagnostics of one check for one object it is not
\* told to ignore.
Apply(c, bs, idx, obj) ==
    LET cls == c.instances[idx].cls
    IN CASE Kind(cls) = "self" /\ obj = TheController ->
              IF IsHealthy(c) THEN <<>>
              ELSE [k \in 1..Len(c.errors.val) |->
                       Diagnostic(idx, cls, <<c.errors.val[k], 0>>, {})]
         [] Kind(cls) \in {"model", "field"} /\ ObjectKind(obj) = Kind(cls) ->
              IF obj \in Clean(cls) THEN <<>> ELSE <<Diagnostic(idx, cls, obj, {})>>
         [] Kind(cls) = "drfmodel" /\ ObjectKind(obj) = "serializer" ->
              LET invalid == ExtraKwargsInvalid(bs, obj)
              IN IF invalid = {} THEN <<>>
                 ELSE <<Diagnostic(idx, cls, obj, invalid)>>
         [] OTHER -> <<>>

\* BaseCheck.__call__: an ignored object is skipped, any other is checked.
CallCheck(c, bs, idx, obj) ==
    IF obj \in c.instances[idx].ignored_objects THEN <<>> ELSE Apply(c, bs, idx, obj)

\* What a run callable did: the diagnostics it yielded, the calls of checks
\* it made and the structural views it built, each in order.
NoRun == [call |-> "none", arg |-> None, raised |-> FALSE, scope |-> <<>>,
          diags |-> <<>>, calls |-> <<>>, views |-> <<>>]

Invocation(idx, obj) == [check |-> idx, obj |-> obj]

\* ------------------------------------------------------------------------
\* check_extra_checks_health
\* ------------------------------------------------------------------------
\* Mutant: the self-check reads the checks of the models group.
HealthRunOtherTag(c) ==
    LET tagged == ChecksFor(c, TagModels)
    IN [call |-> "check_extra_checks_health",
        arg |-> None,
        raised |-> FALSE,
        scope |-> <<>>,
        diags |-> Flatten([k \in 1..Len(tagged) |->
                              CallCheck(c, <<>>, tagged[k], TheController)]),
        calls |-> [k \in 1..Len(tagged) |-> Invocation(tagged[k], TheController)],
        views |-> <<>>]

HealthRun(c) ==
    LET tagged == ChecksFor(c, TagSelfcheck)
    IN [call |-> "check_extra_checks_health",
        arg |-> None,
        raised |-> FALSE,
        scope |-> <<>>,
        diags |-> Flatten([k \in 1..Len(tagged) |->
                              CallCheck(c, <<>>, tagged[k], TheController)]),
        calls |-> [k \in 1..Len(tagged) |-> Invocation(tagged[k], TheController)],
        views |-> <<>>]

CheckExtraChecksHealth ==
    /\ ~controller.isNone
    /\ out' = HealthRun(controller.val)
    /\ UNCHANGED <<checks, IGNORED, settings, serializers, bases, controller, created,
                   djangoChecks, nRegister, nIgnore, hist>>

\* ------------------------------------------------------------------------
\* check_models
\* ------------------------------------------------------------------------
\* _get_models_to_check
GetModelsToCheck(app_configs) ==
    LET apps == IF app_configs.isNone THEN AllApps ELSE app_configs.val
        kept == SelectSeq(apps, LAMBDA app : ~StartsWithSitePrefix(app.path))
    IN Flatten([i \in 1..Len(kept) |-> kept[i].models])

\* Mutant: the fields are visited whether or not a per-field check is active.
ModelRunAlwaysFields(c, model, model_checks, field_checks) ==
    LET fields == FieldNodes(model)
    IN [diags |->
            Flatten([k \in 1..Len(model_checks) |->
                        CallCheck(c, <<>>, model_checks[k], model)])
            \o Flatten([f \in 1..Len(fields) |->
                   Flatten([k \in 1..Len(field_checks) |->
                               CallCheck(c, <<>>, field_checks[k], fields[f])])]),
        calls |->
            [k \in 1..Len(model_checks) |-> Invocation(model_checks[k], model)]
            \o Flatten([f \in 1..Len(fields) |->
                   [k \in 1..Len(field_checks) |->
                       Invocation(field_checks[k], fields[f])]]),
        views |-> <<model>> \o fields]

\* Mutant: the fields of a model are checked before the model itself.
ModelRunFieldsFirst(c, model, model_checks, field_checks) ==
    LET fields == IF field_checks = <<>> THEN <<>> ELSE FieldNodes(model)
    IN [diags |->
            Flatten([f \in 1..Len(fields) |->
                Flatten([k \in 1..Len(field_checks) |->
                            CallCheck(c, <<>>, field_checks[k], fields[f])])])
            \o Flatten([k \in 1..Len(model_checks) |->
                           CallCheck(c, <<>>, model_checks[k], model)]),
        calls |->
            Flatten([f \in 1..Len(fields) |->
                [k \in 1..Len(field_checks) |->
                    Invocation(field_checks[k], fields[f])]])
            \o [k \in 1..Len(model_checks) |-> Invocation(model_checks[k], model)],
        views |-> <<model>> \o fields]

\* The body of the loop over the models, for one model.
ModelRun(c, model, model_checks, field_checks) ==
    LET fields == IF field_checks = <<>> THEN <<>> ELSE FieldNodes(model)
    IN [diags |->
            Flatten([k \in 1..Len(model_checks) |->
                        CallCheck(c, <<>>, model_checks[k], model)])
            \o Flatten([f \in 1..Len(fields) |->
                   Flatten([k \in 1..Len(field_checks) |->
                               CallCheck(c, <<>>, field_checks[k], fields[f])])]),
        calls |->
            [k \in 1..Len(model_checks) |-> Invocation(model_checks[k], model)]
            \o Flatten([f \in 1..Len(fields) |->
                   [k \in 1..Len(field_checks) |->
                       Invocation(field_checks[k], fields[f])]]),
        views |-> <<model>> \o fields]

\* Mutant: each run looks the ignored objects up in the table as it is then.
ModelsRunLive(c, app_configs) ==
    LET live == [c EXCEPT !.instances =
                    [i \in DOMAIN c.instances |->
                        [c.instances[i] EXCEPT !.ignored_objects =
                            IgnoredFor(BuildIgnored(IGNORED),
                                       Id(c.instances[i].cls))]]]
        tagged == ChecksFor(c, TagModels)
        field_checks ==
            SelectSeq(tagged, LAMBDA i : IsCheckModelField(c.instances[i].cls))
        model_checks ==
            SelectSeq(tagged, LAMBDA i : ~IsCheckModelField(c.instances[i].cls))
        models == IF model_checks = <<>> /\ field_checks = <<>>
                  THEN <<>>
                  ELSE GetModelsToCheck(app_configs)
        runs == [m \in 1..Len(models) |->
                    ModelRun(live, models[m], model_checks, field_checks)]
    IN [call |-> "check_models",
        arg |-> app_configs,
        raised |-> FALSE,
        scope |-> <<models>>,
        diags |-> Flatten([m \in 1..Len(models) |-> runs[m].diags]),
        calls |-> Flatten([m \in 1..Len(models) |-> runs[m].calls]),
        views |-> Flatten([m \in 1..Len(models) |-> runs[m].views])]

\* check_models(app_configs): the whole run.
ModelsRun(c, app_configs) ==
    LET tagged == ChecksFor(c, TagModels)
        field_checks ==
            SelectSeq(tagged, LAMBDA i : IsCheckModelField(c.instances[i].cls))
        model_checks ==
            SelectSeq(tagged, LAMBDA i : ~IsCheckModelField(c.instances[i].cls))
        models == IF model_checks = <<>> /\ field_checks = <<>>
                  THEN <<>>
                  ELSE GetModelsToCheck(app_configs)
        runs == [m \in 1..Len(models) |->
                    ModelRun(c, models[m], model_checks, field_checks)]
    IN [call |-> "check_models",
        arg |-> app_configs,
        raised |-> FALSE,
        scope |-> <<models>>,
        diags |-> Flatten([m \in 1..Len(models) |-> runs[m].diags]),
        calls |-> Flatten([m \in 1..Len(models) |-> runs[m].calls]),
        views |-> Flatten([m \in 1..Len(models) |-> runs[m].views])]

\* Mutant: the run looks its tag up with setdefault, which adds the tag to the
\* controller's map when no check is indexed under it.
CheckModelsSetdefault(app_configs) ==
    /\ ~controller.isNone
    /\ out' = ModelsRun(controller.val, app_configs)
    /\ hist' = [hist EXCEPT !.previous = out]
    /\ controller' = [controller EXCEPT !.val.registered_checks =
                         [t \in DOMAIN @ \cup {TagModels} |->
                             IF t \in DOMAIN @ THEN @[t] ELSE <<>>]]
    /\ UNCHANGED <<checks, IGNORED, settings, serializers, bases, created,
                   djangoChecks, nRegister, nIgnore>>

CheckModels(app_configs) ==
    /\ ~controller.isNone
    /\ out' = ModelsRun(controller.val, app_configs)
    /\ hist' = [hist EXCEPT !.previous = out]
    /\ UNCHANGED <<checks, IGNORED, settings, serializers, bases, controller, created,
                   djangoChecks, nRegister, nIgnore>>

\* ------------------------------------------------------------------------
\* check_drf_serializers
\* ------------------------------------------------------------------------
\* _collect_serializers(ss, visited): the classes yielded, and the visited set
\* as the caller sees it afterwards.  `visited or set()` gives the generator
\* a set of its own whenever the caller passes none or an empty one.
\* Mutant: classes already visited are collected again.
RECURSIVE CollectLoopNoVisited(_, _, _)
CollectLoopNoVisited(bs, ss, visited) ==
    IF ss = <<>> THEN [yielded |-> <<>>, visited |-> visited]
    ELSE LET sub == CollectLoopNoVisited(bs, Subclasses(bs, Head(ss)), visited)
             rest == CollectLoopNoVisited(bs, Tail(ss), visited)
         IN [yielded |-> sub.yielded \o <<Head(ss)>> \o rest.yielded,
             visited |-> visited]

RECURSIVE CollectSerializers(_, _, _)
RECURSIVE CollectLoop(_, _, _)
CollectLoop(bs, ss, visited) ==
    IF ss = <<>> THEN [yielded |-> <<>>, visited |-> visited]
    ELSE LET serializer == Head(ss)
         IN IF serializer \in visited
            THEN CollectLoop(bs, Tail(ss), visited)
            ELSE LET sub == CollectSerializers(bs, Subclasses(bs, serializer),
                                               visited \cup {serializer})
                     rest == CollectLoop(bs, Tail(ss), sub.visited)
                 IN [yielded |-> sub.yielded \o <<serializer>> \o rest.yielded,
                     visited |-> rest.visited]

CollectSerializers(bs, ss, visited) ==
    LET r == CollectLoop(bs, ss, visited)
    IN [yielded |-> r.yielded,
        visited |-> IF visited = {} THEN visited ELSE r.visited]

\* _filter_app_serializers
FilterAppSerializers(ss) ==
    SelectSeq(ss, LAMBDA s : ~StartsWithSitePrefix(ModuleFile(s)))

\* isinstance(check, serializers.ModelSerializer): a check is no serializer.
IsModelSerializerInstance(cls) == FALSE

SerializerRoots(bs) ==
    SelectSeq(Subclasses(bs, Serializer), LAMBDA s : s # ModelSerializer)

DRFRun(c, bs) ==
    LET collected ==
            CollectSerializers(bs, SerializerRoots(bs), {}).yielded
        model_collected ==
            CollectSerializers(bs, Subclasses(bs, ModelSerializer), {}).yielded
        serializer_classes == FilterAppSerializers(collected)
        model_serializer_classes == FilterAppSerializers(model_collected)
        tagged == ChecksFor(c, TagDRF)
        model_checks ==
            SelectSeq(tagged, LAMBDA i : IsModelSerializerInstance(c.instances[i].cls))
        plain_checks ==
            SelectSeq(tagged, LAMBDA i : ~IsModelSerializerInstance(c.instances[i].cls))
        pairs ==
            Flatten([s \in 1..Len(model_serializer_classes) |->
                [k \in 1..Len(model_checks) |->
                    Invocation(model_checks[k], model_serializer_classes[s])]])
            \o Flatten([s \in 1..Len(serializer_classes) |->
                [k \in 1..Len(plain_checks) |->
                    Invocation(plain_checks[k], serializer_classes[s])]])
    IN [call |-> "check_drf_serializers",
        arg |-> Some(bs),
        raised |-> FALSE,
        scope |-> <<collected, model_collected>>,
        diags |-> Flatten([k \in 1..Len(pairs) |->
                              CallCheck(c, bs, pairs[k].check, pairs[k].obj)]),
        calls |-> pairs,
        views |-> <<>>]

\* Without rest_framework, `serializers` is None and the first attribute
\* access raises.
CheckDRFSerializers ==
    /\ ~controller.isNone
    /\ out' = IF serializers
              THEN DRFRun(controller.val, bases)
              ELSE [NoRun EXCEPT !.call = "check_drf_serializers",
                                 !.raised = TRUE]
    /\ UNCHANGED <<checks, IGNORED, settings, serializers, bases, controller, created,
                   djangoChecks, nRegister, nIgnore, hist>>

\* ------------------------------------------------------------------------
\* The program around the controller
\* ------------------------------------------------------------------------
\* `return entity`: the decorator hands back its argument.
IgnoreResult(entity) == entity

\* Mutant: the checks of an existing controller see the annotation.
IgnoreChecksLive(entity, ids) ==
    /\ nIgnore < MaxIgnore
    /\ IGNORED' = IgnoredSet(IGNORED, entity, ids)
    /\ nIgnore' = nIgnore + 1
    /\ hist' = [hist EXCEPT
                   !.annotated = [o \in DOMAIN @ \cup {entity} |->
                                     (IF o \in DOMAIN @ THEN @[o] ELSE <<>>)
                                     \o (IF o = entity THEN <<ids>> ELSE <<>>)],
                   !.lastIgnore = Some([entity |-> entity, ids |-> ids,
                                        returned |-> IgnoreResult(entity)])]
    /\ controller' =
           IF controller.isNone THEN controller
           ELSE LET c == controller.val
                    live == BuildIgnored(IgnoredSet(IGNORED, entity, ids))
                IN Some([c EXCEPT
                       !.ignored = live,
                       !.instances =
                           [i \in DOMAIN c.instances |->
                               [c.instances[i] EXCEPT !.ignored_objects =
                                   IgnoredFor(live, Id(c.instances[i].cls))]]])
    /\ UNCHANGED <<checks, settings, serializers, bases, created,
                   djangoChecks, out, nRegister>>

\* ignore_checks(*ids)(entity)
IgnoreChecks(entity, ids) ==
    /\ nIgnore < MaxIgnore
    /\ IGNORED' = IgnoredSet(IGNORED, entity, ids)
    /\ nIgnore' = nIgnore + 1
    /\ hist' = [hist EXCEPT
                   !.annotated = [o \in DOMAIN @ \cup {entity} |->
                                     (IF o \in DOMAIN @ THEN @[o] ELSE <<>>)
                                     \o (IF o = entity THEN <<ids>> ELSE <<>>)],
                   !.lastIgnore = Some([entity |-> entity, ids |-> ids,
                                        returned |-> IgnoreResult(entity)])]
    /\ UNCHANGED <<checks, settings, serializers, bases, controller, created,
                   djangoChecks, out, nRegister>>

\* A class statement defining a serializer class with the given bases.  The
\* project's modules are imported, and their classes defined, before the host
\* calls a run callable.
BaseChoices(bs) ==
    {b \in SUBSET (LibrarySerializers \cup DefinedSerializers(bs)) :
        Cardinality(b) \in 1..MaxBases}

DefineSerializer(b) ==
    /\ serializers
    /\ out.call = "none"
    /\ Len(bases) < MaxSerializers
    /\ bases' = Append(bases, b)
    /\ UNCHANGED <<checks, IGNORED, settings, serializers, controller, created,
                   djangoChecks, out, nRegister, nIgnore, hist>>

\* The histories before any call: a registry loaded by the import of the check
\* modules holds, for each class, the tags of the one registration made.
NotCreated == [checks |-> <<>>, IGNORED |-> EmptyDict, registered |-> EmptyDict]

NoCalls(cs) ==
    [registered |-> [c \in RegisteredClasses(cs) |-> <<TagsOf(cs, c)>>],
     annotated  |-> EmptyDict,
     lastIgnore |-> None,
     previous   |-> NoRun]

\* The state once the package is imported: nothing registered, nothing
\* ignored, no controller.
Init ==
    /\ checks = <<>>
    /\ IGNORED = EmptyDict
    /\ settings \in {None} \cup {Some(raw) : raw \in RawConfigs}
    /\ serializers \in BOOLEAN
    /\ bases = <<>>
    /\ controller = None
    /\ created = NotCreated
    /\ djangoChecks = <<>>
    /\ out = NoRun
    /\ nRegister = 0
    /\ nIgnore = 0
    /\ hist = NoCalls(checks)

\* Registration, construction and the self-check.
Next ==
    \/ \E cls \in CheckClasses : \E tags \in TagChoices(cls) : Register(cls, tags)
    \/ Finish
    \/ CheckExtraChecksHealth

Spec == Init /\ [][Next]_vars

\* Registries as the import of the check modules leaves them.
Entry(cls, tags) == [cls |-> cls, tags |-> tags]

LoadedRegistries ==
    { <<Entry("CheckModel", <<TagModels>>), Entry("CheckFieldA", <<TagModels>>),
        Entry("CheckFieldB", <<TagModels>>)>>,
      <<Entry("CheckFieldB", <<TagModels>>), Entry("CheckConfig", <<TagSelfcheck>>),
        Entry("CheckModel", <<TagModels, TagDRF>>),
        Entry("CheckFieldA", <<TagModels, TagModels>>)>>,
      <<Entry("CheckFieldA", <<TagModels>>)>>,
      <<Entry("CheckModel", <<TagModels>>)>>,
      <<Entry("CheckConfig", <<TagSelfcheck>>),
        Entry("CheckDRFSerializerExtraKwargs", <<TagDRF>>)>> }

InitModels ==
    /\ checks \in LoadedRegistries
    /\ IGNORED = EmptyDict
    /\ settings \in {None} \cup {Some(raw) : raw \in RawConfigs}
    /\ serializers = FALSE
    /\ bases = <<>>
    /\ controller = None
    /\ created = NotCreated
    /\ djangoChecks = <<>>
    /\ out = NoRun
    /\ nRegister = 0
    /\ nIgnore = 0
    /\ hist = NoCalls(checks)

\* Ignore annotations, construction and the model checks.
NextModels ==
    \/ \E entity \in IgnoreTargets : \E ids \in IgnoreIdSets : IgnoreChecks(entity, ids)
    \/ Finish
    \/ \E app_configs \in AppConfigChoices : CheckModels(app_configs)

SpecModels == InitModels /\ [][NextModels]_vars

SchemaRegistries ==
    { <<Entry("CheckModel", <<TagModels, TagDRF>>),
        Entry("CheckDRFSerializerExtraKwargs", <<TagDRF>>)>> }

InitSchema ==
    /\ checks \in SchemaRegistries
    /\ IGNORED = EmptyDict
    /\ settings = Some([k \in KnownIds |-> NoOptions])
    /\ serializers \in BOOLEAN
    /\ bases = <<>>
    /\ controller = None
    /\ created = NotCreated
    /\ djangoChecks = <<>>
    /\ out = NoRun
    /\ nRegister = 0
    /\ nIgnore = 0
    /\ hist = NoCalls(checks)

\* Serializer classes being defined, construction and the serializer checks.
NextSchema ==
    \/ \E b \in BaseChoices(bases) : DefineSerializer(b)
    \/ Finish
    \/ CheckDRFSerializers

SpecSchema == InitSchema /\ [][NextSchema]_vars

\* A project as the host finds it: every check module imported, two serializer
\* classes defined when rest_framework is installed.
ProjectRegistry ==
    <<Entry("CheckConfig", <<TagSelfcheck>>),
      Entry("CheckModel", <<TagModels, TagDRF>>),
      Entry("CheckFieldA", <<TagModels>>),
      Entry("CheckDRFSerializerExtraKwargs", <<TagDRF>>)>>

ProjectSerializers == <<{Serializer}, {S(1), ModelSerializer}>>

InitProject ==
    /\ checks = ProjectRegistry
    /\ IGNORED = EmptyDict
    /\ settings \in {None, Some([k \in KnownIds |-> NoOptions]),
                     Some([k \in {X002, X003} |->
                              IF k = X002 THEN Malformed ELSE NoOptions])}
    /\ serializers \in BOOLEAN
    /\ bases = IF serializers THEN ProjectSerializers ELSE <<>>
    /\ controller = None
    /\ created = NotCreated
    /\ djangoChecks = <<>>
    /\ out = NoRun
    /\ nRegister = 0
    /\ nIgnore = 0
    /\ hist = NoCalls(checks)

\* Ignore annotations, construction and the three run callables.
NextProject ==
    \/ \E entity \in IgnoreTargets : \E ids \in IgnoreIdSets : IgnoreChecks(entity, ids)
    \/ Finish
    \/ CheckExtraChecksHealth
    \/ \E app_configs \in AppConfigChoices : CheckModels(app_configs)
    \/ CheckDRFSerializers

SpecProject == InitProject /\ [][NextProject]_vars

\* ========================================================================
\* Properties
\* ========================================================================
Built == ~controller.isNone

\* The instances of a class, and the tags an instance is indexed under.
InstancesOf(c, cls) == {i \in 1..Len(c.instances) : c.instances[i].cls = cls}

IndexedTags(c, i) ==
    {t \in DOMAIN c.registered_checks : i \in Range(c.registered_checks[t])}

\* No configuration, or one with zero entries.
NoConfiguration == settings.isNone \/ DOMAIN settings.val = {}

ValidationFailed ==
    /\ ~settings.isNone
    /\ \E k \in DOMAIN settings.val :
           k \notin KnownIds \/ settings.val[k] = Malformed

\* The active checks are exactly the registered classes with identifier X001,
\* each instantiated once with empty options.
OnlyDefaultChecksActive(c) ==
    /\ \A e \in Range(created.checks) :
           Cardinality(InstancesOf(c, e.cls)) = IF Id(e.cls) = X001 THEN 1 ELSE 0
    /\ \A i \in 1..Len(c.instances) :
           /\ c.instances[i].cls \in RegisteredClasses(created.checks)
           /\ Id(c.instances[i].cls) = X001
           /\ c.instances[i].options = NoOptions
    /\ \A t \in DOMAIN c.registered_checks :
           \A k \in 1..Len(c.registered_checks[t]) :
               Id(c.instances[c.registered_checks[t][k]].cls) = X001

\* C1: with no EXTRA_CHECKS setting, or one that validates to zero entries,
\* the controller's active checks are exactly the registered checks whose
\* identifier is X001, each with empty options, and no other check.
C1_DefaultOnly == (Built /\ NoConfiguration) => OnlyDefaultChecksActive(controller.val)

C1_Witness ==
    /\ Built
    /\ ~settings.isNone
    /\ DOMAIN settings.val = {}
    /\ \E e \in Range(created.checks) : Id(e.cls) = X001
    /\ \E e \in Range(created.checks) : Id(e.cls) # X001
    /\ Len(controller.val.instances) = 1

\* C2 as stated: after a failed validation the active-check map is empty (no
\* instance, no tag) and the errors are retained.
C2_EmptyMapOnFailure ==
    (Built /\ ValidationFailed) =>
        /\ controller.val.instances = <<>>
        /\ DOMAIN controller.val.registered_checks = {}
        /\ ~controller.val.errors.isNone
        /\ controller.val.errors.val # <<>>
        /\ ~IsHealthy(controller.val)

\* C2 (amended): after a failed validation the controller holds the default
\* configuration, so its active checks are exactly the registered checks with
\* identifier X001 (empty options) and no other; the validation errors are
\* retained, one per offending key, and is_healthy is false.
C2_DefaultMapOnFailure ==
    (Built /\ ValidationFailed) =>
        /\ OnlyDefaultChecksActive(controller.val)
        /\ ~controller.val.errors.isNone
        /\ Range(controller.val.errors.val) =
               {k \in DOMAIN settings.val :
                   k \notin KnownIds \/ settings.val[k] = Malformed}
        /\ Len(controller.val.errors.val) > 0
        /\ ~IsHealthy(controller.val)

C2_Witness ==
    /\ Built
    /\ ValidationFailed
    /\ Len(controller.val.instances) = 1
    /\ \E e \in Range(created.checks) :
           Id(e.cls) # X001 /\ Id(e.cls) \in DOMAIN settings.val

\* The diagnostics of the last run that refer to one configuration error.
ErrorDiagnostics(k) ==
    {j \in 1..Len(out.diags) : out.diags[j].obj = <<k, 0>>}

HealthRan == Built /\ out.call = "check_extra_checks_health"

SelfcheckRegistered ==
    IF "CheckConfig" \in RegisteredClasses(created.checks)
    THEN Count(TagsOf(created.checks, "CheckConfig"), TagSelfcheck)
    ELSE 0

C4_InstantiatedOncePerConfiguredClass ==
    (Built /\ ~ValidationFailed) =>
        LET c == controller.val
            keys == IF NoConfiguration THEN {X001} ELSE DOMAIN settings.val
            opts(id) == IF NoConfiguration THEN NoOptions ELSE settings.val[id]
        IN /\ \A e \in Range(created.checks) :
                  /\ InstancesOf(c, e.cls) # {} <=> Id(e.cls) \in keys
                  /\ Id(e.cls) \in keys =>
                        /\ Cardinality(InstancesOf(c, e.cls)) = 1
                        /\ \A i \in InstancesOf(c, e.cls) :
                               /\ c.instances[i].options = opts(Id(e.cls))
                               /\ IndexedTags(c, i) = Range(e.tags)
           /\ Len(c.instances) =
                  Cardinality({e \in Range(created.checks) : Id(e.cls) \in keys})

C4_Witness ==
    /\ Built
    /\ ~NoConfiguration
    /\ ~ValidationFailed
    /\ \E e \in Range(created.checks) :
           /\ Id(e.cls) \in DOMAIN settings.val
           /\ Cardinality(Range(e.tags)) = 2
           /\ settings.val[Id(e.cls)] = NoOptions
    /\ \E e \in Range(created.checks) : Id(e.cls) \notin DOMAIN settings.val

\* The group finish() is to register a run callable under.
HostGroup(callback) ==
    CASE callback = "check_extra_checks_health" -> TagSelfcheck
      [] callback = "check_models" -> TagModels
      [] callback = "check_drf_serializers" -> TagDRF

\* C9: after finish() every run callable is registered with the host under
\* its own group (the serializer callable only when rest_framework is
\* available), none under another callable's group, none left out.
C9_EachCallableUnderItsGroup ==
    Built =>
        /\ \A k \in 1..Len(djangoChecks) :
               djangoChecks[k].tag = HostGroup(djangoChecks[k].callback)
        /\ \A cb \in {"check_extra_checks_health", "check_models"}
                     \cup (IF serializers THEN {"check_drf_serializers"} ELSE {}) :
               \E k \in 1..Len(djangoChecks) : djangoChecks[k].callback = cb

\* C10: the controller finish() returns holds only checks registered before
\* the call, with the tags they then had, and once it exists no step (a later
\* register call in particular) changes it or the diagnostics of its
\* self-check.
C10_FinishIsHandOff ==
    [][ /\ (~Built /\ ~controller'.isNone) =>
               \A i \in 1..Len(controller'.val.instances) :
                   /\ controller'.val.instances[i].cls \in RegisteredClasses(checks)
                   /\ IndexedTags(controller'.val, i) =
                          Range(TagsOf(checks, controller'.val.instances[i].cls))
        /\ Built =>
               /\ controller' = controller
               /\ (out.call = "check_extra_checks_health"
                   /\ out'.call = "check_extra_checks_health") =>
                      out'.diags = out.diags ]_vars

C10_Witness ==
    /\ HealthRan
    /\ ~controller.val.errors.isNone
    /\ out.diags = <<>>
    /\ "CheckConfig" \notin RegisteredClasses(created.checks)
    /\ "CheckConfig" \in RegisteredClasses(checks)
    /\ TagsOf(checks, "CheckConfig") = <<TagSelfcheck>>

ModelsRan == Built /\ out.call = "check_models"

HasDiagnostic(idx, obj) ==
    \E j \in 1..Len(out.diags) : out.diags[j].check = idx /\ out.diags[j].obj = obj

WasCalled(idx, obj) ==
    \E j \in 1..Len(out.calls) : out.calls[j] = Invocation(idx, obj)

ScopeEntities ==
    LET apps == IF out.arg.isNone THEN AllApps ELSE out.arg.val
    IN Flatten([i \in 1..Len(apps) |-> apps[i].models])

EntityOf(obj) ==
    IF ObjectKind(obj) = "model" THEN obj
    ELSE CHOOSE m \in {M1, M2, M3, M4} : obj \in Range(FieldNodes(m))

Position(seq, x) == CHOOSE i \in 1..Len(seq) : seq[i] = x /\ \A k \in 1..(i - 1) : seq[k] # x

\* C6: the diagnostics of check_models come entity by entity in the order of
\* the scope; within an entity the whole-entity diagnostics come before the
\* field diagnostics, these in field declaration order and, for one field, in
\* the order of the active per-field checks.
C6_DiagnosticOrder ==
    ModelsRan =>
        \A i, j \in 1..Len(out.diags) :
            i < j =>
                LET a == out.diags[i]
                    b == out.diags[j]
                    ea == Position(ScopeEntities, EntityOf(a.obj))
                    eb == Position(ScopeEntities, EntityOf(b.obj))
                    fields == FieldNodes(EntityOf(a.obj))
                    order == ChecksFor(controller.val, TagModels)
                IN \/ ea < eb
                   \/ /\ ea = eb
                      /\ ObjectKind(a.obj) = "model"
                   \/ /\ ea = eb
                      /\ ObjectKind(a.obj) = "field"
                      /\ ObjectKind(b.obj) = "field"
                      /\ \/ Position(fields, a.obj) < Position(fields, b.obj)
                         \/ /\ a.obj = b.obj
                            /\ Position(order, a.check) <= Position(order, b.check)

C6_Witness ==
    /\ ModelsRan
    /\ \E j \in 1..Len(out.diags) : out.diags[j].obj = M1
    /\ \E j, k \in 1..Len(out.diags) :
           /\ out.diags[j].obj = F11
           /\ out.diags[k].obj = F11
           /\ out.diags[j].check # out.diags[k].check
    /\ \E j \in 1..Len(out.diags) : out.diags[j].obj = F12
    /\ \E j \in 1..Len(out.diags) : out.diags[j].obj = F21

DRFRan == Built /\ out.call = "check_drf_serializers" /\ ~out.raised

\* The proper ancestors of a serializer class.
RECURSIVE Ancestors(_, _)
Ancestors(bs, c) ==
    BasesOf(bs, c) \cup UNION {Ancestors(bs, b) : b \in BasesOf(bs, c)}

AllSerializers(bs) == LibrarySerializers \cup DefinedSerializers(bs)

\* C7 as stated: the scope check_drf_serializers collects (both collections
\* together) holds every transitive subclass of the root types exactly once.
C7_EachClassOnceInScope ==
    DRFRan =>
        LET bs == out.arg.val
            scope == out.scope[1] \o out.scope[2]
        IN /\ NoDuplicates(scope)
           /\ Range(scope) =
                  {c \in AllSerializers(bs) : Serializer \in Ancestors(bs, c)}
                  \ {ModelSerializer}

\* C7 (amended): each of the two collections holds every class it is to
\* reach exactly once: the first the direct subclasses of Serializer other
\* than ModelSerializer and all their descendants, the second all descendants
\* of ModelSerializer; a class that descends from both is in both.  No check
\* is called on a class more often than it is indexed under the tag.
C7_EachClassOncePerCollection ==
    DRFRan =>
        LET bs == out.arg.val
            roots == {c \in AllSerializers(bs) \ {ModelSerializer} :
                         Serializer \in BasesOf(bs, c)}
        IN /\ NoDuplicates(out.scope[1])
           /\ Range(out.scope[1]) =
                  {c \in AllSerializers(bs) :
                      c \in roots \/ Ancestors(bs, c) \cap roots # {}}
           /\ NoDuplicates(out.scope[2])
           /\ Range(out.scope[2]) =
                  {c \in AllSerializers(bs) : ModelSerializer \in Ancestors(bs, c)}
           /\ \A j \in 1..Len(out.calls) :
                  Count(out.calls, out.calls[j]) =
                      Count(ChecksFor(controller.val, TagDRF), out.calls[j].check)

C7_Witness ==
    /\ DRFRan
    /\ ChecksFor(controller.val, TagDRF) # <<>>
    /\ Len(out.arg.val) = 3
    /\ out.arg.val[1] = {HyperlinkedModelSerializer}
    /\ out.arg.val[2] = {HyperlinkedModelSerializer}
    /\ out.arg.val[3] = {S(1), S(2)}
    /\ Len(out.scope[2]) = 4

\* A path lies under a site prefix: it is the prefix or continues it with a
\* path separator.
UnderSitePrefix(path) ==
    \E prefix \in SitePrefixes :
        /\ IsPrefix(prefix, path)
        /\ Len(path) = Len(prefix) \/ path[Len(prefix) + 1] = "/"

\* C8: checks are called only on serializer classes whose module file is not
\* under a site prefix and models are enumerated only from applications whose
\* path is not under one, while every first-party class of the collected
\* scope is still checked by every active serializer check.
C8_OnlyAndAllFirstParty ==
    /\ DRFRan =>
           /\ \A j \in 1..Len(out.calls) :
                  ~UnderSitePrefix(ModuleFile(out.calls[j].obj))
           /\ \A cls \in Range(out.scope[1]) \cup Range(out.scope[2]) :
                  ~UnderSitePrefix(ModuleFile(cls)) =>
                      \A idx \in Range(ChecksFor(controller.val, TagDRF)) :
                          WasCalled(idx, cls)
    /\ ModelsRan =>
           \A m \in Range(out.scope[1]) :
               \E i \in 1..Len(AllApps) :
                   /\ m \in Range(AllApps[i].models)
                   /\ ~UnderSitePrefix(AllApps[i].path)

\* ------------------------------------------------------------------------
\* C11: registering a class again replaces its tags.  The registry holds one
\* entry per registered class, carrying the tags of the class's last
\* registration and none of an earlier one; a controller indexes the class's
\* instance under exactly the tags of the last registration made before it
\* was created.
\* ------------------------------------------------------------------------
LastOf(seq) == seq[Len(seq)]

C11_LastRegistrationWins ==
    /\ RegisteredClasses(checks) = DOMAIN hist.registered
    /\ \A cls \in DOMAIN hist.registered :
           /\ Cardinality({i \in 1..Len(checks) : checks[i].cls = cls}) = 1
           /\ \A i \in 1..Len(checks) :
                  checks[i].cls = cls => checks[i].tags = LastOf(hist.registered[cls])
    /\ Built =>
           \A i \in 1..Len(controller.val.instances) :
               IndexedTags(controller.val, i) =
                   Range(LastOf(created.registered[controller.val.instances[i].cls]))

\* A class registered twice under different tags, then instantiated.
C11_Witness ==
    /\ Built
    /\ \E i \in 1..Len(controller.val.instances) :
           LET regs == created.registered[controller.val.instances[i].cls]
           IN /\ Len(regs) = 2
              /\ Range(regs[1]) \ Range(regs[2]) # {}
              /\ IndexedTags(controller.val, i) = Range(regs[2])

\* ------------------------------------------------------------------------
\* C12: ignore_checks(id1, ..., idn)(obj) returns obj itself and has one
\* effect: the ignore table records obj against exactly {id1, ..., idn}.  The
\* entries of all other objects stay as they were, no object is added or
\* removed besides obj, and the registry, the settings, the serializer
\* classes, the controller, the host's registrations and the last run result
\* are left alone.
\* ------------------------------------------------------------------------
C12_IgnoreOnlyRecords ==
    [][nIgnore' # nIgnore =>
          LET call == hist'.lastIgnore.val
          IN /\ call.returned = call.entity
             /\ DOMAIN IGNORED' = DOMAIN IGNORED \cup {call.entity}
             /\ IGNORED'[call.entity] = call.ids
             /\ \A o \in DOMAIN IGNORED \ {call.entity} : IGNORED'[o] = IGNORED[o]
             /\ UNCHANGED <<checks, settings, serializers, bases, controller,
                            djangoChecks, out>>]_vars

\* The second annotation, made of another object than the first, with other
\* identifiers, while a controller exists.
C12_Witness ==
    /\ Built
    /\ DOMAIN created.IGNORED = {M1}
    /\ ~hist.lastIgnore.isNone
    /\ hist.lastIgnore.val.entity = F11
    /\ hist.lastIgnore.val.returned = F11
    /\ DOMAIN IGNORED = {M1, F11}
    /\ IGNORED[M1] = {X002}
    /\ IGNORED[F11] = {X002, X003}

\* ------------------------------------------------------------------------
\* C13: running and constructing are read-only.  A step that is a run of
\* check_extra_checks_health, check_models or check_drf_serializers, or the
\* construction of the controller, leaves the registry mapping and the global
\* ignore table as they were; a run also leaves the controller as it was: its
\* instances, the map from tag to active checks, its per-identifier ignore
\* sets and the ignore set handed to each instance.
\* ------------------------------------------------------------------------
RunOrConstruction ==
    \/ out' # out
    \/ hist'.previous # hist.previous
    \/ controller' # controller

C13_RunsAndConstructionReadOnly ==
    [][RunOrConstruction =>
          /\ checks' = checks
          /\ IGNORED' = IGNORED
          /\ Built =>
                 /\ controller'.val.instances = controller.val.instances
                 /\ controller'.val.registered_checks =
                        controller.val.registered_checks
                 /\ controller'.val.ignored = controller.val.ignored]_vars

\* A run of the model checks that finds no check under its tag, on a
\* controller built while the ignore table was not empty.
C13_Witness ==
    /\ Built
    /\ out.call = "check_models"
    /\ TagModels \notin DOMAIN controller.val.registered_checks
    /\ controller.val.instances # <<>>
    /\ controller.val.ignored # EmptyDict
    /\ IGNORED # EmptyDict

\* ------------------------------------------------------------------------
\* C14: check_models is idempotent.  Called again on the same controller with
\* the same app_configs, it yields the same diagnostics in the same order,
\* from the same check instances, after the same calls on the same views,
\* whatever was annotated in between.
\* ------------------------------------------------------------------------
RanTwice ==
    /\ ModelsRan
    /\ hist.previous.call = "check_models"
    /\ hist.previous.arg = out.arg

ModelsTagged == ChecksFor(controller.val, TagModels)

FieldChecks ==
    {i \in Range(ModelsTagged) : IsCheckModelField(controller.val.instances[i].cls)}

EntityChecks == Range(ModelsTagged) \ FieldChecks

Enumerated == out.scope[1]

\* The views built and the calls made for the entities, `times` telling how
\* often a check is to be called on one object.
ViewsAndCalls(times(_)) ==
    /\ \A m \in Range(Enumerated) :
           /\ Count(out.views, m) = 1
           /\ \A i \in EntityChecks :
                  Count(out.calls, Invocation(i, m)) = times(i)
           /\ \A f \in Range(FieldNodes(m)) :
                  /\ Count(out.views, f) = (IF FieldChecks = {} THEN 0 ELSE 1)
                  /\ \A i \in FieldChecks :
                         Count(out.calls, Invocation(i, f)) = times(i)
                  /\ \A i \in EntityChecks : Count(out.calls, Invocation(i, f)) = 0
           /\ \A i \in FieldChecks : Count(out.calls, Invocation(i, m)) = 0
    /\ \A v \in Range(out.views) :
           \E m \in Range(Enumerated) : v = m \/ v \in Range(FieldNodes(m))
    /\ ModelsTagged = <<>> => Enumerated = <<>> /\ out.views = <<>>

Once(i) == 1

OncePerIndexing(i) == Count(ModelsTagged, i)

\* C15 as stated: one EntityView per scoped entity and each active
\* whole-entity check invoked exactly once on it; one FieldView per field and
\* each active per-field check invoked exactly once per field, the fields
\* being visited only if a per-field check is active; nothing enumerated and
\* no view built when no check is tagged for the models group.
C15_EachCheckOnce == ModelsRan => ViewsAndCalls(Once)

\* C15, amended: the same, a check being invoked on an object once for each
\* time it is indexed under the models tag, which is once unless its class
\* was registered with the tag repeated.
C15_EachCheckOncePerIndexing == ModelsRan => ViewsAndCalls(OncePerIndexing)

\* A run with a whole-entity check indexed once and a per-field check indexed
\* twice, over two entities.
C15_Witness ==
    /\ ModelsRan
    /\ Len(Enumerated) >= 2
    /\ \E i \in EntityChecks : Count(ModelsTagged, i) = 1
    /\ \E i \in FieldChecks :
           Count(ModelsTagged, i) = 2 /\ Count(out.calls, Invocation(i, F11)) = 2
    /\ Count(out.views, F11) = 1

\* ------------------------------------------------------------------------
\* C16: the serializer checks are dispatched by kind.  A check for model
\* serializers (a CheckDRFModelSerializer) is called on every first-party
\* subclass of ModelSerializer and on no class that is not one; any other
\* check under the serializer tag is called on every first-party subclass of
\* Serializer that is not a model serializer.
\* ------------------------------------------------------------------------
IsModelSerializerClass(bs, cls) == ModelSerializer \in Ancestors(bs, cls)

IsSerializerClass(bs, cls) == Serializer \in Ancestors(bs, cls)

FirstParty(cls) == ~UnderSitePrefix(ModuleFile(cls))

C16_DispatchByKind ==
    DRFRan =>
        LET bs == out.arg.val
        IN \A idx \in Range(ChecksFor(controller.val, TagDRF)) :
               \A cls \in AllSerializers(bs) :
                   IF Kind(controller.val.instances[idx].cls) = "drfmodel"
                   THEN /\ IsModelSerializerClass(bs, cls) /\ FirstParty(cls)
                           => WasCalled(idx, cls)
                        /\ ~IsModelSerializerClass(bs, cls) => ~WasCalled(idx, cls)
                   ELSE IsSerializerClass(bs, cls) /\ FirstParty(cls)
                        /\ ~IsModelSerializerClass(bs, cls)
                           => WasCalled(idx, cls)

\* ------------------------------------------------------------------------
\* C17: CheckDRFSerializerExtraKwargs, applied to a serializer class, yields
\* exactly one diagnostic if the class has a Meta carrying extra_kwargs and
\* at least one key of extra_kwargs is also a declared field of the class;
\* the diagnostic has identifier X301, references the class and its hint
\* names exactly the keys that are declared fields.  In every other case it
\* yields nothing.
\* ------------------------------------------------------------------------
DiagnosticsOf(idx, obj) ==
    SelectSeq(out.diags, LAMBDA d : d.check = idx /\ d.obj = obj)

HasExtraKwargs(bs, cls) ==
    LET meta == MetaOwner(bs, cls)
    IN ~meta.isNone /\ OwnMeta(meta.val) = "kwargs"

Overridden(bs, cls) ==
    LET meta == MetaOwner(bs, cls)
    IN {f \in DeclaredFields(bs, cls) : f \in OwnExtraKwargs(meta.val)}

C17_OneDiagnosticIffOverridden ==
    DRFRan =>
        LET bs == out.arg.val
        IN \A j \in 1..Len(out.calls) :
               LET idx == out.calls[j].check
                   cls == out.calls[j].obj
                   found == DiagnosticsOf(idx, cls)
                   named == IF HasExtraKwargs(bs, cls)
                            THEN Overridden(bs, cls) ELSE {}
               IN controller.val.instances[idx].cls = "CheckDRFSerializerExtraKwargs" =>
                      IF named # {}
                      THEN /\ Len(found) = Count(out.calls, out.calls[j])
                           /\ \A k \in 1..Len(found) :
                                  /\ found[k].id = X301
                                  /\ found[k].hint = named
                      ELSE found = <<>>

\* One run in which the check reports S(3), whose own extra_kwargs names a
\* field declared by its base S(1) and a key that is no field, and reports
\* nothing for S(2), which inherits a Meta without extra_kwargs.
C17_Witness ==
    /\ DRFRan
    /\ \E j \in 1..Len(out.diags) :
           /\ out.diags[j].obj = S(3)
           /\ out.diags[j].id = X301
           /\ out.diags[j].hint = {"a"}
    /\ \E j \in 1..Len(out.calls) :
           /\ out.calls[j].obj = S(2)
           /\ controller.val.instances[out.calls[j].check].cls =
                  "CheckDRFSerializerExtraKwargs"
           /\ DiagnosticsOf(out.calls[j].check, S(2)) = <<>>
           /\ MetaOwner(out.arg.val, S(2)) = Some(S(1))

\* ------------------------------------------------------------------------
\* C18: annotating replaces.  After any sequence of ignore_checks
\* applications the ignore table holds exactly the objects annotated so far,
\* each against exactly the identifiers of the most recent application made
\* to it: an identifier given only by an earlier application is gone.
\* ------------------------------------------------------------------------
C18_LastAnnotationReplaces ==
    /\ DOMAIN IGNORED = DOMAIN hist.annotated
    /\ \A o \in DOMAIN IGNORED : IGNORED[o] = LastOf(hist.annotated[o])

\* An object annotated with two identifiers, then again with one of them.
C18_Witness ==
    /\ M1 \in DOMAIN IGNORED
    /\ hist.annotated[M1] = <<{X002, X003}, {X003}>>
    /\ IGNORED[M1] = {X003}

\* ------------------------------------------------------------------------
\* C19: the ignore table is read once, when the controller is constructed.
\* The controller's ignore set of an identifier, and the ignore set of each
\* active check, is the set of objects the table recorded against the
\* check's identifier at that moment, whatever has been annotated since; a
\* run skips an object for a check exactly if the table recorded the object
\* against the check's identifier at construction.
\* ------------------------------------------------------------------------
RecordedAtConstruction(id) ==
    {o \in DOMAIN created.IGNORED : id \in created.IGNORED[o]}

C19_IgnoreTableReadAtConstruction ==
    Built =>
        LET c == controller.val
        IN /\ \A id \in KnownIds :
                  IgnoredFor(c.ignored, id) = RecordedAtConstruction(id)
           /\ \A i \in 1..Len(c.instances) :
                  c.instances[i].ignored_objects =
                      IgnoredFor(c.ignored, Id(c.instances[i].cls))
           /\ ModelsRan =>
                  \A j \in 1..Len(out.calls) :
                      LET idx == out.calls[j].check
                          obj == out.calls[j].obj
                          cls == c.instances[idx].cls
                      IN Kind(cls) = ObjectKind(obj) /\ obj \notin Clean(cls) =>
                             (HasDiagnostic(idx, obj)
                                 <=> obj \notin RecordedAtConstruction(Id(cls)))

\* A run after a late annotation: M1 was annotated before the controller was
\* built and is skipped; F11 was annotated afterwards and is still reported.
C19_Witness ==
    /\ ModelsRan
    /\ DOMAIN created.IGNORED = {M1}
    /\ created.IGNORED[M1] = {X002}
    /\ F11 \in DOMAIN IGNORED
    /\ IGNORED[F11] = {X003}
    /\ \E j \in 1..Len(out.calls) :
           /\ out.calls[j].obj = M1
           /\ Id(controller.val.instances[out.calls[j].check].cls) = X002
           /\ ~HasDiagnostic(out.calls[j].check, M1)
    /\ \E j \in 1..Len(out.diags) :
           out.diags[j].obj = F11 /\ out.diags[j].id = X003
====
